---- MODULE Spec2Model ----
(***************************************************************************)
(* strawberry_django/fields/filter_types.py: the lookup input shapes, the  *)
(* module-level loading sequence (class definitions, type_filter_map, the  *)
(* conditional GeometryFilterLookup), construction of shape instances and  *)
(* RangeLookup.filter.                                                     *)
(*                                                                         *)
(* Strings that the code slices (the prefix) are sequences of one-char     *)
(* strings.  Python values are records [kind, v].                          *)
(***************************************************************************)
EXTENDS Integers, Sequences, FiniteSets, TLC

VARIABLES pc, gis, error, namespace, type_filter_map, obj, arg, last, watch

vars == <<pc, gis, error, namespace, type_filter_map, obj, arg, last, watch>>

(* ---------------------------------------------------------------- bounds *)
MaxVal == 2
MaxKwargs == 2
MaxPrefixLen == 6
MaxSegs == 2

(* ---------------------------------------------------------------- values *)
UNSET == [kind |-> "unset", v |-> 0]
None == [kind |-> "none", v |-> 0]
Given == [kind |-> "given", v |-> 0]
IntVal(n) == [kind |-> "int", v |-> n]
EnumVal(n) == [kind |-> "enum", v |-> n]

\* the values a caller passes as a range bound: null, a number, an Enum member
BoundVals == {None} \cup {IntVal(n) : n \in 1..MaxVal} \cup {EnumVal(n) : n \in 1..MaxVal}

(* ----------------------------------------------------- field declarations *)
Ty(con, a) == [con |-> con, arg |-> a]
T == Ty("plain", "T")
IntComparison == Ty("ComparisonFilterLookup", "int")
Geometry == Ty("plain", "Geometry")

\* default of filter_field(description=...) when no default is passed
filter_field_default == UNSET

Field(name, type, default) ==
    [name |-> name, type |-> type, optional |-> TRUE, default |-> default]

FilterField(name, type) == Field(name, type, filter_field_default)

BaseFilterLookup ==
    [name |-> "BaseFilterLookup", bases |-> <<>>,
     own |-> << FilterField("exact", T),
                FilterField("is_null", Ty("plain", "bool")),
                FilterField("in_list", Ty("list", "T")) >>]

RangeLookup ==
    [name |-> "RangeLookup", bases |-> <<>>,
     own |-> << Field("start", T, None),
                Field("end", T, None) >>]

ComparisonFilterLookup ==
    [name |-> "ComparisonFilterLookup", bases |-> <<"BaseFilterLookup">>,
     own |-> << FilterField("gt", T),
                FilterField("gte", T),
                FilterField("lt", T),
                FilterField("lte", T),
                FilterField("range", Ty("RangeLookup", "T")) >>]

FilterLookup ==
    [name |-> "FilterLookup", bases |-> <<"BaseFilterLookup">>,
     own |-> << FilterField("i_exact", T),
                FilterField("contains", T),
                FilterField("i_contains", T),
                FilterField("starts_with", T),
                FilterField("i_starts_with", T),
                FilterField("ends_with", T),
                FilterField("i_ends_with", T),
                FilterField("regex", T),
                FilterField("i_regex", T) >>]

DateFilterLookup ==
    [name |-> "DateFilterLookup", bases |-> <<"ComparisonFilterLookup">>,
     own |-> << Field("year", IntComparison, UNSET),
                Field("month", IntComparison, UNSET),
                Field("day", IntComparison, UNSET),
                Field("week_day", IntComparison, UNSET),
                Field("iso_week_day", IntComparison, UNSET),
                Field("week", IntComparison, UNSET),
                Field("iso_year", IntComparison, UNSET),
                Field("quarter", IntComparison, UNSET) >>]

\* variant: the date and time components typed by the shape's own parameter
TimeFilterLookup_typed ==
    [name |-> "TimeFilterLookup", bases |-> <<"ComparisonFilterLookup">>,
     own |-> << Field("hour", IntComparison, UNSET),
                Field("minute", IntComparison, UNSET),
                Field("second", IntComparison, UNSET),
                Field("date", Ty("ComparisonFilterLookup", "T"), UNSET),
                Field("time", Ty("ComparisonFilterLookup", "T"), UNSET) >>]

TimeFilterLookup ==
    [name |-> "TimeFilterLookup", bases |-> <<"ComparisonFilterLookup">>,
     own |-> << Field("hour", IntComparison, UNSET),
                Field("minute", IntComparison, UNSET),
                Field("second", IntComparison, UNSET),
                Field("date", IntComparison, UNSET),
                Field("time", IntComparison, UNSET) >>]

DatetimeFilterLookup ==
    [name |-> "DatetimeFilterLookup",
     bases |-> <<"DateFilterLookup", "TimeFilterLookup">>,
     own |-> <<>>]

GeometryFilterLookup ==
    [name |-> "GeometryFilterLookup", bases |-> <<>>,
     own |-> << Field("bbcontains", Geometry, UNSET),
                Field("bboverlaps", Geometry, UNSET),
                Field("contained", Geometry, UNSET),
                Field("contains", Geometry, UNSET),
                Field("contains_properly", Geometry, UNSET),
                Field("coveredby", Geometry, UNSET),
                Field("covers", Geometry, UNSET),
                Field("crosses", Geometry, UNSET),
                Field("disjoint", Geometry, UNSET),
                Field("equals", Geometry, UNSET),
                Field("exacts", Geometry, UNSET),
                Field("intersects", Geometry, UNSET),
                FilterField("isempty", Ty("plain", "bool")),
                FilterField("isvalid", Ty("plain", "bool")),
                Field("overlaps", Geometry, UNSET),
                Field("touches", Geometry, UNSET),
                Field("within", Geometry, UNSET),
                Field("left", Geometry, UNSET),
                Field("right", Geometry, UNSET),
                Field("overlaps_left", Geometry, UNSET),
                Field("overlaps_right", Geometry, UNSET),
                Field("overlaps_above", Geometry, UNSET),
                Field("overlaps_below", Geometry, UNSET),
                Field("strictly_above", Geometry, UNSET),
                Field("strictly_below", Geometry, UNSET) >>]

\* the class statements of the module body, in source order
ClassStatements ==
    << BaseFilterLookup, RangeLookup, ComparisonFilterLookup, FilterLookup,
       DateFilterLookup, TimeFilterLookup, DatetimeFilterLookup >>

(* ------------------------------------------- class creation (input types) *)
Range(s) == {s[i] : i \in DOMAIN s}

\* C3 linearisation merge of the parents' MROs and the list of parents
RECURSIVE MroMerge(_)
MroMerge(seqs) ==
    LET live == SelectSeq(seqs, LAMBDA s : Len(s) > 0)
    IN  IF Len(live) = 0 THEN <<>>
        ELSE LET good(i) == \A j \in DOMAIN live : Head(live[i]) \notin Range(Tail(live[j]))
                 ok == {i \in DOMAIN live : good(i)}
                 k == CHOOSE i \in ok : \A j \in ok : i <= j
                 h == Head(live[k])
                 strip(s) == IF Head(s) = h THEN Tail(s) ELSE s
             IN  <<h>> \o MroMerge([i \in DOMAIN live |-> strip(live[i])])

Mro(decl, ns) ==
    <<decl.name>> \o
    MroMerge([i \in 1..Len(decl.bases) |-> ns[decl.bases[i]].mro] \o <<decl.bases>>)

IndexOf(fields, name) ==
    IF \E i \in DOMAIN fields : fields[i].name = name
    THEN CHOOSE i \in DOMAIN fields : fields[i].name = name
    ELSE 0

\* variant: every put appends, an inherited name is not recognised
PutAll_append(puts) == puts

\* fields[f.name] = f for every f of puts, in order, on an insertion-ordered dict:
\* a name keeps the place of its first put and the value of its last
PutAll(puts) ==
    LET isFirst(i) == \A j \in 1..(i - 1) : puts[j].name /= puts[i].name
        isLast(i) == \A j \in (i + 1)..Len(puts) : puts[j].name /= puts[i].name
        firsts == SelectSeq([i \in DOMAIN puts |-> i], isFirst)
        lastOf(i) == CHOOSE j \in i..Len(puts) : puts[j].name = puts[i].name /\ isLast(j)
    IN  [k \in DOMAIN firsts |-> puts[lastOf(firsts[k])]]

\* the fields of the bases, over the MRO from the root to the class
RECURSIVE BaseFields(_, _)
BaseFields(mroRev, ns) ==
    IF Len(mroRev) = 0 THEN <<>>
    ELSE ns[Head(mroRev)].fields \o BaseFields(Tail(mroRev), ns)

Reverse(s) == [i \in 1..Len(s) |-> s[Len(s) + 1 - i]]

\* @strawberry.input class C(bases): own fields
MakeClass(decl, ns) ==
    LET mro == Mro(decl, ns)
    IN  [bases |-> decl.bases,
         mro |-> mro,
         own |-> decl.own,
         fields |-> PutAll(BaseFields(Reverse(Tail(mro)), ns) \o decl.own)]

Bind(ns, decl) ==
    [n \in DOMAIN ns \cup {decl.name} |->
        IF n = decl.name THEN MakeClass(decl, ns) ELSE ns[n]]

RECURSIVE BindAll(_, _)
BindAll(ns, decls) ==
    IF Len(decls) = 0 THEN ns ELSE BindAll(Bind(ns, Head(decls)), Tail(decls))

EmptyNamespace == [n \in {} |-> 0]

\* Optional[X[T]] specialised at T := a
Specialise(type, a) == IF type.arg = "T" THEN [type EXCEPT !.arg = a] ELSE type

(* --------------------------------------------------------- type_filter_map *)
\* variant: datetime falls back to the shape of its supertype date
TypeFilterItems_supertype ==
    << <<"ID", "BaseFilterLookup">>,
       <<"bool", "BaseFilterLookup">>,
       <<"date", "DateFilterLookup">>,
       <<"datetime", "DateFilterLookup">>,
       <<"time", "TimeFilterLookup">>,
       <<"Decimal", "ComparisonFilterLookup">>,
       <<"float", "ComparisonFilterLookup">>,
       <<"int", "ComparisonFilterLookup">>,
       <<"str", "FilterLookup">>,
       <<"UUID", "FilterLookup">> >>

TypeFilterItems ==
    << <<"ID", "BaseFilterLookup">>,
       <<"bool", "BaseFilterLookup">>,
       <<"date", "DateFilterLookup">>,
       <<"datetime", "DatetimeFilterLookup">>,
       <<"time", "TimeFilterLookup">>,
       <<"Decimal", "ComparisonFilterLookup">>,
       <<"float", "ComparisonFilterLookup">>,
       <<"int", "ComparisonFilterLookup">>,
       <<"str", "FilterLookup">>,
       <<"UUID", "FilterLookup">> >>

\* a dict display: later items with an equal key replace earlier ones
DictOf(items) ==
    [k \in {items[i][1] : i \in DOMAIN items} |->
        LET i == CHOOSE i \in DOMAIN items :
                    /\ items[i][1] = k
                    /\ \A j \in DOMAIN items : items[j][1] = k => j <= i
        IN  items[i][2]]

EmptyDict == [k \in {} |-> ""]

(* ------------------------------------------------------------------ text *)
Alphabet == {"a", "_"}
Strings(n) == UNION {[1..k -> Alphabet] : k \in 0..n}
Sep == <<"_", "_">>

\* the names the filter engine walks through: model fields and lookup fields
Segments == {<<"a">>, <<"a", "_", "a">>, <<"r", "a", "n", "g", "e">>}
Paths == UNION {[1..k -> Segments] : k \in 1..MaxSegs}

\* the prefix the filter engine passes for a path: every name followed by "__"
RECURSIVE PrefixOf(_)
PrefixOf(path) ==
    IF Len(path) = 0 THEN <<>> ELSE Head(path) \o Sep \o PrefixOf(Tail(path))

\* the names of a path joined by "__"
RECURSIVE Joined(_)
Joined(path) ==
    IF Len(path) = 1 THEN Head(path) ELSE Head(path) \o Sep \o Joined(Tail(path))

\* variant: prefix[:-1]
SliceToMinus1(prefix) ==
    IF Len(prefix) >= 1 THEN SubSeq(prefix, 1, Len(prefix) - 1) ELSE <<>>

\* prefix[:-2]
SliceToMinus2(prefix) ==
    IF Len(prefix) >= 2 THEN SubSeq(prefix, 1, Len(prefix) - 2) ELSE <<>>

(* ------------------------------------------------------------- querysets *)
\* a queryset is the sequence of the rows it yields, a row the value of the field
Rows == 0..(MaxVal + 1)
QuerySets == {<<>>, <<2, 1>>, <<0, 1, 2, 3>>}

(* ------------------------------------------------------ RangeLookup.filter *)
\* strawberry_django.filters.resolve_value: an Enum member gives its value
resolve_value(value) ==
    IF value.kind = "enum" THEN IntVal(value.v) ELSE value

\* Q(**{key: value}): one (key, value) child, AND-connected, not negated
Q(key, value) ==
    [connector |-> "AND", negated |-> FALSE,
     children |-> << [key |-> key, value |-> value] >>]

\* the ORM's reading of a condition on a row: `<field>__range` is BETWEEN
RangeSuffix == Sep \o <<"r", "a", "n", "g", "e">>
EndsWith(s, suffix) ==
    /\ Len(s) >= Len(suffix)
    /\ SubSeq(s, Len(s) - Len(suffix) + 1, Len(s)) = suffix

IsRangeKey(key) == EndsWith(key, RangeSuffix) /\ Len(key) > Len(RangeSuffix)

Matches(q, row) ==
    \A i \in DOMAIN q.children :
        LET c == q.children[i]
        IN  /\ IsRangeKey(c.key)
            /\ c.value[1].kind = "int"
            /\ c.value[2].kind = "int"
            /\ c.value[1].v <= row
            /\ row <= c.value[2].v

\* variant: the range is applied to the queryset as well
filter_filtering(self, queryset, prefix) ==
    [self |-> self,
     value |-> << SelectSeq(queryset,
                            LAMBDA r : /\ resolve_value(self.start).v <= r
                                       /\ r <= resolve_value(self.end).v),
                  Q(SliceToMinus2(prefix),
                    <<resolve_value(self.start), resolve_value(self.end)>>) >>]

\* variant: the two bounds are put in ascending order
filter_sorted(self, queryset, prefix) ==
    LET s == resolve_value(self.start)
        e == resolve_value(self.end)
    IN  [self |-> self,
         value |-> << queryset,
                      Q(SliceToMinus2(prefix),
                        IF s.v <= e.v THEN <<s, e>> ELSE <<e, s>>) >>]

\* variant: end first, start second
filter_swapped(self, queryset, prefix) ==
    [self |-> self,
     value |-> << queryset,
                  Q(SliceToMinus2(prefix),
                    <<resolve_value(self.end), resolve_value(self.start)>>) >>]

\* variant: the resolved start is stored back into the lookup
filter_mutating(self, queryset, prefix) ==
    [self |-> [self EXCEPT !.start = resolve_value(self.start)],
     value |-> << queryset,
                  Q(SliceToMinus2(prefix),
                    <<resolve_value(self.start), resolve_value(self.end)>>) >>]

\* the call's whole effect: the lookup after it and the pair it returns
filter(self, queryset, prefix) ==
    [self |-> self,
     value |-> << queryset,
                  Q(SliceToMinus2(prefix),
                    <<resolve_value(self.start), resolve_value(self.end)>>) >>]

(* --------------------------------------------------------- instantiation *)
FieldNames(cls) == {cls.fields[i].name : i \in DOMAIN cls.fields}
FieldOf(cls, name) == cls.fields[IndexOf(cls.fields, name)]

\* the keyword arguments a caller may pass to a shape
KwargVals(shape) == IF shape = "RangeLookup" THEN BoundVals ELSE {Given}
RECURSIVE SubsetsUpTo(_, _)
SubsetsUpTo(S, k) ==
    IF k = 0 THEN {{}}
    ELSE LET smaller == SubsetsUpTo(S, k - 1)
         IN  smaller \cup {U \cup {x} : U \in smaller, x \in S}

Kwargs(shape, cls) ==
    UNION {[S -> KwargVals(shape)] : S \in SubsetsUpTo(FieldNames(cls), MaxKwargs)}

\* variant: a missing argument becomes None whatever the field declares
NewInstance_none(cls, kwargs) ==
    [n \in FieldNames(cls) |-> IF n \in DOMAIN kwargs THEN kwargs[n] ELSE None]

\* the dataclass __init__: a passed value, else the field's default
NewInstance(cls, kwargs) ==
    [n \in FieldNames(cls) |->
        IF n \in DOMAIN kwargs THEN kwargs[n] ELSE FieldOf(cls, n).default]

(* ------------------------------------------------------------ module body *)
Program ==
    << "BaseFilterLookup", "RangeLookup", "ComparisonFilterLookup", "FilterLookup",
       "DateFilterLookup", "TimeFilterLookup", "DatetimeFilterLookup",
       "type_filter_map", "try" >>

After(label) ==
    LET i == CHOOSE i \in DOMAIN Program : Program[i] = label
    IN  Program[i + 1]

ClassLabels == {ClassStatements[i].name : i \in DOMAIN ClassStatements}
StatementOf(label) ==
    ClassStatements[CHOOSE i \in DOMAIN ClassStatements : ClassStatements[i].name = label]

\* what `from django.contrib.gis.geos import GEOSGeometry` does
ImportOutcomes == {"ok", "ImproperlyConfigured", "OtherError"}

NoObj == [shape |-> "", given |-> {}, vals |-> EmptyNamespace]

Init ==
    /\ pc = Program[1]
    /\ gis \in ImportOutcomes
    /\ error = ""
    /\ namespace = EmptyNamespace
    /\ type_filter_map = EmptyDict
    /\ obj = NoObj
    /\ arg = <<>>
    /\ last = <<>>
    /\ watch = <<>>

\* lines 29-117: one class statement
DefineClass ==
    /\ pc \in ClassLabels
    /\ namespace' = Bind(namespace, StatementOf(pc))
    /\ pc' = After(pc)
    /\ UNCHANGED <<gis, error, type_filter_map, obj, arg, last, watch>>

\* lines 120-131
DefineTypeFilterMap ==
    /\ pc = "type_filter_map"
    /\ type_filter_map' = DictOf(TypeFilterItems)
    /\ pc' = After(pc)
    /\ UNCHANGED <<gis, error, namespace, obj, arg, last, watch>>

\* variant: the handler names an exception the import does not raise
TryTarget_uncaught(outcome) ==
    IF outcome = "ok" THEN "else" ELSE "failed"

\* lines 134-139: the import, and where control goes from it
TryTarget(outcome) ==
    IF outcome = "ok" THEN "else"
    ELSE IF outcome = "ImproperlyConfigured" THEN "except"
    ELSE "failed"

ImportGEOS ==
    /\ pc = "try"
    /\ pc' = TryTarget(gis)
    /\ error' = IF pc' = "failed" THEN gis ELSE error
    /\ UNCHANGED <<gis, namespace, type_filter_map, obj, arg, last, watch>>

\* lines 136-138
ExceptPass ==
    /\ pc = "except"
    /\ pc' = "loaded"
    /\ UNCHANGED <<gis, error, namespace, type_filter_map, obj, arg, last, watch>>

\* lines 139-166
DefineGeometry ==
    /\ pc = "else"
    /\ namespace' = Bind(namespace, GeometryFilterLookup)
    /\ pc' = "loaded"
    /\ UNCHANGED <<gis, error, type_filter_map, obj, arg, last, watch>>

\* a caller builds an instance of a shape the module defines; a run follows one
\* instance (instances share no state)
Construct ==
    /\ pc = "loaded"
    /\ obj = NoObj
    /\ \E shape \in DOMAIN namespace :
         \E kwargs \in Kwargs(shape, namespace[shape]) :
            obj' = [shape |-> shape, given |-> DOMAIN kwargs,
                    vals |-> NewInstance(namespace[shape], kwargs)]
    /\ UNCHANGED <<pc, gis, error, namespace, type_filter_map, arg, last, watch>>

Call(self, queryset, prefix) ==
    [args |-> [self |-> self, queryset |-> queryset, prefix |-> prefix],
     ret |-> filter(self, queryset, prefix)]

\* the querysets and prefixes the calls of the main specification pass
SampleQuerySets == {<<2, 1>>, <<0, 1, 2, 3>>}
SamplePrefixes ==
    { <<>>,
      <<"a", "_", "_">>,
      <<"a", "_", "_", "r", "a", "n", "g", "e">>,
      PrefixOf(<< <<"a">>, <<"r", "a", "n", "g", "e">> >>),
      PrefixOf(<< <<"a", "_", "a">>, <<"r", "a", "n", "g", "e">> >>) }

\* the filter engine calls lookup.filter(queryset=..., prefix=...); `last` is the
\* call just made, `watch` an earlier call of the run kept for comparison
CallFilter ==
    /\ pc = "loaded"
    /\ obj.shape = "RangeLookup"
    /\ \E queryset \in SampleQuerySets, prefix \in SamplePrefixes, remember \in BOOLEAN :
         LET c == Call(obj.vals, queryset, prefix)
         IN  /\ last' = <<c>>
             /\ obj' = [obj EXCEPT !.vals = c.ret.self]
             /\ watch' = IF remember /\ Len(last) = 1
                         THEN <<[prefix |-> last[1].args.prefix,
                                 q |-> last[1].ret.value[2]]>>
                         ELSE watch
    /\ UNCHANGED <<pc, gis, error, namespace, type_filter_map, arg>>

Next ==
    \/ DefineClass
    \/ DefineTypeFilterMap
    \/ ImportGEOS
    \/ ExceptPass
    \/ DefineGeometry
    \/ Construct
    \/ CallFilter

Spec == Init /\ [][Next]_vars

(* ------------------------------------------- RangeLookup.filter on its own *)
\* the module once imported
LoadedNamespace(outcome) ==
    IF outcome = "ok"
    THEN Bind(BindAll(EmptyNamespace, ClassStatements), GeometryFilterLookup)
    ELSE BindAll(EmptyNamespace, ClassStatements)

\* the inputs of one call: a lookup, a queryset, and a prefix that is either any
\* string or the prefix of a path (then `path` records it)
CallInputs ==
    {[queryset |-> qs, prefix |-> p, path |-> <<>>] :
        qs \in QuerySets, p \in Strings(MaxPrefixLen)}
    \cup
    {[queryset |-> qs, prefix |-> PrefixOf(path), path |-> path] :
        qs \in QuerySets, path \in Paths}

InitPure ==
    /\ pc = "loaded"
    /\ gis \in {"ok", "ImproperlyConfigured"}
    /\ error = ""
    /\ namespace = LoadedNamespace(gis)
    /\ type_filter_map = DictOf(TypeFilterItems)
    /\ \E start \in BoundVals, end \in BoundVals :
         obj = [shape |-> "RangeLookup", given |-> {"start", "end"},
                vals |-> NewInstance(namespace["RangeLookup"],
                                     [n \in {"start", "end"} |->
                                        IF n = "start" THEN start ELSE end])]
    /\ arg \in {<<a>> : a \in CallInputs}
    /\ last = <<>>
    /\ watch = <<>>

ApplyFilter ==
    /\ pc = "loaded"
    /\ obj.shape = "RangeLookup"
    /\ Len(arg) = 1
    /\ Len(last) = 0
    /\ LET c == Call(obj.vals, arg[1].queryset, arg[1].prefix)
       IN  /\ last' = <<c>>
           /\ obj' = [obj EXCEPT !.vals = c.ret.self]
    /\ UNCHANGED <<pc, gis, error, namespace, type_filter_map, arg, watch>>

NextPure == ApplyFilter

SpecPure == InitPure /\ [][NextPure]_vars

(* ================================================================ claims *)
Called == Len(last) = 1
ArgSelf == last[1].args.self
ArgQueryset == last[1].args.queryset
ArgPrefix == last[1].args.prefix
Returned == last[1].ret.value
Condition == Returned[2].children[1]
Has(c) == c \in DOMAIN namespace
NamesOf(c) == FieldNames(namespace[c])
OwnNamesOf(c) == {namespace[c].own[i].name : i \in DOMAIN namespace[c].own}
BaseNames == {"exact", "is_null", "in_list"}
ComparisonNames == {"gt", "gte", "lt", "lte", "range"}
DateComponents ==
    {"year", "month", "day", "week_day", "iso_week_day", "week", "iso_year", "quarter"}
TimeComponents == {"hour", "minute", "second", "date", "time"}
TypeArgs == {"date", "time", "datetime", "int", "str"}
Present(value) == value.kind \in {"int", "enum"}
IsRangePrefix(prefix) ==
    EndsWith(prefix, RangeSuffix \o Sep) /\ Len(prefix) > Len(RangeSuffix \o Sep)

\* C1: RangeLookup.filter returns a pair whose first element is the queryset it
\* was given, unchanged, whatever the prefix and the bounds.
C1_QuerysetUntouched ==
    Called => Len(Returned) = 2 /\ Returned[1] = ArgQueryset

C1_Witness ==
    /\ Called
    /\ ArgQueryset = <<0, 1, 2, 3>>
    /\ ArgSelf.start = IntVal(1)
    /\ ArgSelf.end = IntVal(2)

C3_InclusiveRange ==
    (Called /\ IsRangePrefix(ArgPrefix) /\ Present(ArgSelf.start) /\ Present(ArgSelf.end)) =>
        \A v \in Rows :
            Matches(Returned[2], v) <=> (ArgSelf.start.v <= v /\ v <= ArgSelf.end.v)

C3_Witness ==
    /\ Called
    /\ IsRangePrefix(ArgPrefix)
    /\ ArgSelf.start = IntVal(1)
    /\ ArgSelf.end = IntVal(2)
    /\ Matches(Returned[2], 1)
    /\ Matches(Returned[2], 2)
    /\ ~Matches(Returned[2], 0)

\* C4 as stated: every field is optional and an instance built with no arguments
\* has every field equal to UNSET, RangeLookup.start and RangeLookup.end included.
C4_AllUnset ==
    (obj.shape /= "" /\ obj.given = {}) =>
        \A n \in DOMAIN obj.vals :
            /\ FieldOf(namespace[obj.shape], n).optional
            /\ obj.vals[n] = UNSET

\* C4 amended: every field is optional and an instance built with no arguments
\* has every field equal to UNSET, except RangeLookup.start and RangeLookup.end,
\* which are None.
C4_UnsetExceptRange ==
    /\ \A c \in DOMAIN namespace :
         \A i \in DOMAIN namespace[c].fields : namespace[c].fields[i].optional
    /\ (obj.shape /= "" /\ obj.given = {}) =>
         \A n \in DOMAIN obj.vals :
            obj.vals[n] = IF obj.shape = "RangeLookup" THEN None ELSE UNSET

C4_Witness ==
    /\ obj.shape = "RangeLookup"
    /\ obj.given = {}
    /\ obj.vals["start"] = None
    /\ obj.vals["end"] = None

\* C5: once assigned, type_filter_map has exactly the ten keys with the stated
\* shapes (datetime -> DatetimeFilterLookup, bool -> BaseFilterLookup), and
\* nothing that runs afterwards (the geometry branch, construction,
\* RangeLookup.filter) changes it.
C5_TypeFilterMap ==
    IF pc \in ClassLabels \cup {"type_filter_map"}
    THEN DOMAIN type_filter_map = {}
    ELSE /\ Cardinality(DOMAIN type_filter_map) = 10
         /\ type_filter_map =
               ("ID" :> "BaseFilterLookup" @@ "bool" :> "BaseFilterLookup" @@
                "Decimal" :> "ComparisonFilterLookup" @@
                "float" :> "ComparisonFilterLookup" @@
                "int" :> "ComparisonFilterLookup" @@
                "str" :> "FilterLookup" @@ "UUID" :> "FilterLookup" @@
                "date" :> "DateFilterLookup" @@ "time" :> "TimeFilterLookup" @@
                "datetime" :> "DatetimeFilterLookup")
         /\ \A k \in DOMAIN type_filter_map : Has(type_filter_map[k])

C5_Witness ==
    /\ pc = "loaded"
    /\ gis = "ok"
    /\ Has("GeometryFilterLookup")
    /\ Called
    /\ type_filter_map["datetime"] = "DatetimeFilterLookup"
    /\ type_filter_map["bool"] = "BaseFilterLookup"

\* C6: GeometryFilterLookup is defined iff the GEOS import succeeds; when the
\* import raises ImproperlyConfigured loading still completes without error and
\* every other shape and type_filter_map are as in the other case.
C6_GeometryIffPresent ==
    /\ Has("GeometryFilterLookup") => gis = "ok"
    /\ gis \in {"ok", "ImproperlyConfigured"} => (pc /= "failed" /\ error = "")
    /\ pc = "loaded" =>
         /\ Has("GeometryFilterLookup") <=> gis = "ok"
         /\ DOMAIN namespace \ {"GeometryFilterLookup"} = ClassLabels
         /\ LET present == LoadedNamespace("ok")
            IN  \A c \in ClassLabels : namespace[c] = present[c]
         /\ type_filter_map = DictOf(TypeFilterItems)

C6_Witness ==
    /\ pc = "loaded"
    /\ gis = "ImproperlyConfigured"
    /\ ~Has("GeometryFilterLookup")
    /\ obj.shape = "DatetimeFilterLookup"

\* C7: a derived shape's fields are exactly its parents' fields plus its own,
\* each once and with the parent's type; Comparison and Filter share only the
\* Base fields; Date and Time hold the Comparison fields; Datetime is the union
\* of Date and Time.
C7_Lattice ==
    /\ \A c \in DOMAIN namespace :
         LET parents == Range(namespace[c].bases)
         IN  /\ NamesOf(c) = OwnNamesOf(c) \cup UNION {NamesOf(b) : b \in parents}
             /\ Len(namespace[c].fields) = Cardinality(NamesOf(c))
             /\ \A b \in parents : \A n \in NamesOf(b) \ OwnNamesOf(c) :
                    FieldOf(namespace[c], n) = FieldOf(namespace[b], n)
    /\ Has("BaseFilterLookup") => NamesOf("BaseFilterLookup") = BaseNames
    /\ Has("ComparisonFilterLookup") =>
         NamesOf("ComparisonFilterLookup") = BaseNames \cup ComparisonNames
    /\ Has("FilterLookup") =>
         /\ BaseNames \subseteq NamesOf("FilterLookup")
         /\ NamesOf("FilterLookup") \cap NamesOf("ComparisonFilterLookup") = BaseNames
    /\ Has("DateFilterLookup") => ComparisonNames \subseteq NamesOf("DateFilterLookup")
    /\ Has("TimeFilterLookup") => ComparisonNames \subseteq NamesOf("TimeFilterLookup")
    /\ Has("DatetimeFilterLookup") =>
         /\ NamesOf("DatetimeFilterLookup") =
               NamesOf("DateFilterLookup") \cup NamesOf("TimeFilterLookup")
         /\ \A n \in NamesOf("DatetimeFilterLookup") :
               Cardinality({i \in DOMAIN namespace["DatetimeFilterLookup"].fields :
                              namespace["DatetimeFilterLookup"].fields[i].name = n}) = 1

C7_Witness ==
    /\ pc = "type_filter_map"
    /\ Has("DatetimeFilterLookup")
    /\ Cardinality(NamesOf("DatetimeFilterLookup")) = 21

\* C8: for a prefix made of names each followed by "__" the key is the names
\* joined by "__", non-empty; for any other prefix the call still returns, the
\* key being the prefix cut by two characters (possibly empty).
C8_KeyOfPrefix ==
    Called =>
        /\ Len(arg[1].path) > 0 =>
             (Condition.key = Joined(arg[1].path) /\ Len(Condition.key) > 0)
        /\ (EndsWith(ArgPrefix, Sep) /\ Len(ArgPrefix) >= 3) =>
             (Condition.key \o Sep = ArgPrefix /\ Len(Condition.key) > 0)
        /\ (~EndsWith(ArgPrefix, Sep) \/ Len(ArgPrefix) < 3) =>
             /\ error = ""
             /\ Len(Condition.key) = (IF Len(ArgPrefix) >= 2 THEN Len(ArgPrefix) - 2 ELSE 0)
             /\ Condition.key = SubSeq(ArgPrefix, 1, Len(Condition.key))

C8_Witness ==
    /\ Called
    /\ Len(arg[1].path) = 2
    /\ Condition.key = arg[1].path[1] \o Sep \o arg[1].path[2]

\* C9: a call leaves the lookup's start and end as they were, and a call made
\* with the prefix of an earlier call on the same lookup returns an equal
\* predicate, whatever was called in between.
C9_Pure ==
    Called =>
        /\ obj.vals = ArgSelf
        /\ (Len(watch) = 1 /\ watch[1].prefix = ArgPrefix) => watch[1].q = Returned[2]

C9_Witness ==
    /\ Called
    /\ Len(watch) = 1
    /\ watch[1].prefix = ArgPrefix
    /\ IsRangePrefix(ArgPrefix)
    /\ obj.vals["start"] = EnumVal(1)
    /\ obj.vals["end"] = IntVal(2)

\* C10: every date/time component field of the date, time and datetime shapes
\* is typed ComparisonFilterLookup[int] whatever the shape's parameter T is
\* bound to, the `date` and `time` components included.
C10_IntComponents ==
    \A a \in TypeArgs :
        LET typeOf(c, n) == Specialise(FieldOf(namespace[c], n).type, a)
            intTyped(c, ns) ==
                \A n \in ns : n \in NamesOf(c) /\ typeOf(c, n) = Ty("ComparisonFilterLookup", "int")
        IN  /\ Has("DateFilterLookup") =>
                 /\ intTyped("DateFilterLookup", DateComponents)
                 /\ typeOf("DateFilterLookup", "gt") = Ty("plain", a)
            /\ Has("TimeFilterLookup") => intTyped("TimeFilterLookup", TimeComponents)
            /\ Has("DatetimeFilterLookup") =>
                 intTyped("DatetimeFilterLookup", DateComponents \cup TimeComponents)

C10_Witness ==
    /\ obj.shape = "DatetimeFilterLookup"
    /\ obj.given = {"date", "time"}
    /\ Cardinality(DateComponents \cup TimeComponents) = 13

====
